---- MODULE Spec2Model ----
(***************************************************************************)
(* Model of the message relay of encode_now_backend (src/app/main.py,      *)
(* src/app/db.py): the three tables, the in-process long-poll hub and the  *)
(* request handlers save_message, poll_for_messages and get_messages.      *)
(*                                                                         *)
(* Every request runs as one asyncio task.  A task can be interleaved with *)
(* the others only at an await, so one action of the model is one awaited  *)
(* database statement together with the synchronous code that follows it   *)
(* up to the next await.  Statements outside database.transaction() are    *)
(* auto-committed; statements inside it write to the task's own            *)
(* uncommitted set (tx) and read the committed rows plus that set, which   *)
(* is the default isolation (READ COMMITTED) of the connection, since the  *)
(* code asks for no other.                                                 *)
(***************************************************************************)
EXTENDS Integers, Sequences, FiniteSets, TLC

\* ---- bounds of the model
NumSubmitters == 2 \* concurrent POST /messages/ requests
NumPollers == 2    \* concurrent GET /poll/messages requests
NumKeys == 2       \* public keys clients use
NumCts == 2        \* distinct non-empty request bodies
MaxTicks == 1      \* how often the database clock advances during the run
MaxStored == 2     \* messages relayed before the run, in the history runs
MaxAnchor == 3     \* highest since_id / until_id a history request gives
MaxLimit == 2      \* highest limit a history request gives

\* ---- program constants
REPLAY_ATTACK_HASH_COUNT == 50
DEFAULT_LIMIT == 100     \* limit: int = Query(100)

None == 0
Submitters == 1..NumSubmitters
Pollers == (NumSubmitters + 1)..(NumSubmitters + NumPollers)
Readers == {NumSubmitters + NumPollers + 1}
Procs == Submitters \cup Pollers \cup Readers
Keys == 1..NumKeys
Bodies == 0..NumCts      \* 0 is the empty body
Absent == 0 - 1          \* a query parameter that is not given (Python None)
Anchors == 0..MaxAnchor  \* since_id / until_id values
Limits == 1..MaxLimit    \* limit values

VARIABLES
    users,            \* table users: rows [id, public_key]
    messages,         \* table messages: committed rows
    message_hashes,   \* table message_hashes: committed rows
    seq,              \* the tables' id sequences (last value handed out)
    now,              \* the database clock, read by server_default now()
    tx,               \* per task: rows written in its open transaction
    waiting_clients,  \* dict user id -> asyncio.Event (named by its poll task)
    new_messages,     \* dict user id -> list of message rows
    eventSet,         \* per poll task: its Event's flag
    pc,               \* per task: the await it is suspended at
    loc,              \* per task: the handler's parameters and locals; for a
                      \* history client also the pages it was sent so far
    resp,             \* per task: the HTTP response
    after,            \* history: the requests already answered when this submission began
    delivered,        \* history: message ids for which this poll's Event was set
    disturbed         \* history: another poll touched the hub entry this poll registered

vars == <<users, messages, message_hashes, seq, now, tx, waiting_clients,
          new_messages, eventSet, pc, loc, resp, after, delivered, disturbed>>

dbVars == <<users, messages, message_hashes, seq, now, tx>>
hubVars == <<waiting_clients, new_messages, eventSet>>
histVars == <<after, delivered, disturbed>>

\* ---- values
NoLoc == [kind |-> "none", sender_key |-> None, recipient_key |-> None,
          ciphertext |-> None, sender_id |-> None, recipient_id |-> None,
          message_id |-> None, hash_count |-> None, oldest_hash_id |-> None,
          public_key |-> None, user_id |-> None,
          since_id |-> Absent, until_id |-> Absent, limit |-> None,
          start_id |-> Absent, pages |-> <<>>]
NoResp == [status |-> None, detail |-> "", body |-> <<>>]
NoTx == [msgs |-> {}, hashes |-> {}, dels |-> {}]

\* hashlib.sha256(ciphertext).hexdigest(): a digest that differs for different
\* bodies (SHA-256 is taken to be collision free) and is not the body itself.
Sha256Hex(ciphertext) == <<"sha256", ciphertext>>

\* ---- the tables (src/app/db.py)
UserRow(id, public_key) == [id |-> id, public_key |-> public_key]
MessageRow(id, sender_id, recipient_id, ciphertext) ==
    [id |-> id, sender_id |-> sender_id, recipient_id |-> recipient_id,
     ciphertext |-> ciphertext]
HashRow(id, recipient_id, message_hash, created_at) ==
    [id |-> id, recipient_id |-> recipient_id, message_hash |-> message_hash,
     created_at |-> created_at]

\* server_default=now(): the clock's value when the row is inserted.  The clock
\* never goes back, and two inserts can read the same value.
ClockReadings == {now} \cup {t \in {now + 1} : t <= MaxTicks}

\* users.select().where(public_key == ...), fetch_one: the id, or None
get_user(public_key) ==
    LET found == {u \in users : u.public_key = public_key}
    IN  IF found = {} THEN None ELSE (CHOOSE u \in found : TRUE).id

\* mutant: the unique constraint on public_key is missing
UniqueViolation_NotEnforced(public_key) == FALSE

\* unique=True on users.public_key: the insert is refused when a row has the key
UniqueViolation(public_key) == \E u \in users : u.public_key = public_key

\* What task p's statements see inside its transaction: the committed rows and
\* its own uncommitted writes.
VisibleHashes(p) ==
    {h \in message_hashes \cup tx[p].hashes : h.id \notin tx[p].dels}

\* mutant: the replay query does not filter on the recipient
ReplayMatches_AnyRecipient(recipient_id, message_hash) ==
    {h \in message_hashes : h.message_hash = message_hash}

\* the replay query of save_message, fetch_one: the matching rows
ReplayMatches(recipient_id, message_hash) ==
    {h \in message_hashes :
        h.recipient_id = recipient_id /\ h.message_hash = message_hash}

\* select count() from message_hashes where recipient_id = ...
HashCount(p, recipient_id) ==
    Cardinality({h \in VisibleHashes(p) : h.recipient_id = recipient_id})

\* select id ... order_by(created_at.asc()).limit(1): the rows the database may
\* return.  The query orders by created_at alone, so among rows with the same
\* least created_at the database is free to return any.
OldestHashCandidates(p, recipient_id) ==
    LET rows == {h \in VisibleHashes(p) : h.recipient_id = recipient_id}
    IN  {h \in rows : \A g \in rows : h.created_at <= g.created_at}

\* ---- states the service can be started in
\* The database after Fill accepted submissions, one after the other, from
\* public key 1 to itself, bodies NumCts+1 .. NumCts+Fill.  With tied, all of
\* them were inserted at one clock reading; otherwise each at a later one.
Filled(n, tied) ==
    /\ users = IF n = 0 THEN {} ELSE {UserRow(1, 1)}
    /\ messages = {MessageRow(i, 1, 1, NumCts + i) : i \in 1..n}
    /\ message_hashes =
         {HashRow(i, 1, Sha256Hex(NumCts + i), IF tied THEN 0 ELSE i - n) : i \in 1..n}
    /\ seq = [users |-> IF n = 0 THEN 0 ELSE 1, messages |-> n, message_hashes |-> n]
    /\ now = 0

InitTasks ==
    /\ tx = [p \in Procs |-> NoTx]
    /\ waiting_clients = <<>>
    /\ new_messages = <<>>
    /\ eventSet = [p \in Procs |-> FALSE]
    /\ pc = [p \in Procs |-> "idle"]
    /\ loc = [p \in Procs |-> NoLoc]
    /\ resp = [p \in Procs |-> NoResp]
    /\ after = [p \in Procs |-> {}]
    /\ delivered = [p \in Procs |-> <<>>]
    /\ disturbed = [p \in Procs |-> FALSE]

\* a new database, or one that holds REPLAY_ATTACK_HASH_COUNT hashes for user 1
Init ==
    /\ \/ Filled(0, FALSE)
       \/ Filled(REPLAY_ATTACK_HASH_COUNT, FALSE)
    /\ InitTasks

\* The database after n accepted submissions, one after the other, of bodies
\* NumCts+1 .. NumCts+n; route[i] is the i-th one's sender and recipient key.
\* The first is from key 1 to key 2, so the two keys have the user ids 1 and 2.
Relayed(n, route) ==
    /\ users = IF n = 0 THEN {} ELSE {UserRow(1, 1), UserRow(2, 2)}
    /\ messages = {MessageRow(i, route[i][1], route[i][2], NumCts + i) : i \in 1..n}
    /\ message_hashes =
         {HashRow(i, route[i][2], Sha256Hex(NumCts + i), i - n) : i \in 1..n}
    /\ seq = [users |-> IF n = 0 THEN 0 ELSE 2, messages |-> n, message_hashes |-> n]
    /\ now = 0

\* up to MaxStored messages between keys 1 and 2, or the filled database
InitHist ==
    /\ \/ \E n \in 0..MaxStored :
             \E route \in [1..n -> {1, 2} \X {1, 2}] :
                /\ n > 0 => route[1] = <<1, 2>>
                /\ Relayed(n, route)
       \/ Filled(REPLAY_ATTACK_HASH_COUNT, FALSE)
    /\ InitTasks

\* the same, the hashes all inserted at one clock reading
InitTied ==
    /\ Filled(REPLAY_ATTACK_HASH_COUNT, TRUE)
    /\ InitTasks

Answered == {q \in Procs : pc[q] = "done"}

\* the handler returns or raises HTTPException: the response is sent
Respond(p, status, detail, body) ==
    /\ resp' = [resp EXCEPT ![p] = [status |-> status, detail |-> detail, body |-> body]]
    /\ pc' = [pc EXCEPT ![p] = "done"]

SetLoc(p, field, value) == [loc EXCEPT ![p][field] = value]

\* ---- POST /messages/ : save_message
\* await request.body(), the empty-body check, the digest, and the first
\* statement of get_or_create_user(x_sender_public_key): get_user.
Submit_BeginWith(p, senders, recipients, bodies) ==
    /\ pc[p] = "idle"
    /\ after' = [after EXCEPT ![p] = Answered]
    /\ \E s \in senders, r \in recipients, c \in bodies :
         LET l == [NoLoc EXCEPT !.kind = "submit", !.sender_key = s,
                                !.recipient_key = r, !.ciphertext = c]
         IN  IF c = 0
             THEN /\ loc' = [loc EXCEPT ![p] = l]
                  /\ Respond(p, 400, "Request body cannot be empty.", <<>>)
             ELSE /\ loc' = [loc EXCEPT ![p] = [l EXCEPT !.sender_id = get_user(s)]]
                  /\ pc' = [pc EXCEPT ![p] = IF get_user(s) # None
                                             THEN "get_recipient"
                                             ELSE "insert_sender"]
                  /\ UNCHANGED resp
    /\ UNCHANGED <<dbVars, hubVars, delivered, disturbed>>

Submit_Begin(p) == Submit_BeginWith(p, Keys, Keys, Bodies)

\* get_or_create_user: users.insert().values(public_key=...).  A second row for
\* the key violates the unique constraint; the exception is not an
\* HTTPException, so save_message answers 500.
InsertUser(p, public_key, field, next) ==
    IF UniqueViolation(public_key)
    THEN /\ Respond(p, 500, "IntegrityError", <<>>)
         /\ UNCHANGED <<users, seq, loc>>
    ELSE /\ users' = users \cup {UserRow(seq.users + 1, public_key)}
         /\ seq' = [seq EXCEPT !.users = @ + 1]
         /\ loc' = SetLoc(p, field, seq.users + 1)
         /\ pc' = [pc EXCEPT ![p] = next]
         /\ UNCHANGED resp

Submit_InsertSender(p) ==
    /\ pc[p] = "insert_sender"
    /\ InsertUser(p, loc[p].sender_key, "sender_id", "get_recipient")
    /\ UNCHANGED <<messages, message_hashes, now, tx, hubVars, histVars>>

\* get_or_create_user(x_recipient_public_key): get_user
Submit_GetRecipient(p) ==
    /\ pc[p] = "get_recipient"
    /\ loc' = SetLoc(p, "recipient_id", get_user(loc[p].recipient_key))
    /\ pc' = [pc EXCEPT ![p] = IF get_user(loc[p].recipient_key) # None
                               THEN "replay_check"
                               ELSE "insert_recipient"]
    /\ UNCHANGED <<dbVars, hubVars, resp, histVars>>

Submit_InsertRecipient(p) ==
    /\ pc[p] = "insert_recipient"
    /\ InsertUser(p, loc[p].recipient_key, "recipient_id", "replay_check")
    /\ UNCHANGED <<messages, message_hashes, now, tx, hubVars, histVars>>

\* the replay query, before the transaction opens
Submit_ReplayCheck(p) ==
    /\ pc[p] = "replay_check"
    /\ IF ReplayMatches(loc[p].recipient_id, Sha256Hex(loc[p].ciphertext)) # {}
       THEN Respond(p, 409, "Duplicate message detected.", <<>>)
       ELSE /\ pc' = [pc EXCEPT ![p] = "insert_message"]
            /\ UNCHANGED resp
    /\ UNCHANGED <<dbVars, hubVars, loc, histVars>>

\* async with database.transaction(): 1. insert the message
Submit_InsertMessage(p) ==
    /\ pc[p] = "insert_message"
    /\ seq' = [seq EXCEPT !.messages = @ + 1]
    /\ tx' = [tx EXCEPT ![p].msgs = @ \cup
                {MessageRow(seq.messages + 1, loc[p].sender_id,
                            loc[p].recipient_id, loc[p].ciphertext)}]
    /\ loc' = SetLoc(p, "message_id", seq.messages + 1)
    /\ pc' = [pc EXCEPT ![p] = "insert_hash"]
    /\ UNCHANGED <<users, messages, message_hashes, now, hubVars, resp, histVars>>

\* 2. insert the hash
Submit_InsertHash(p) ==
    /\ pc[p] = "insert_hash"
    /\ \E t \in ClockReadings :
         /\ now' = t
         /\ tx' = [tx EXCEPT ![p].hashes = @ \cup
                     {HashRow(seq.message_hashes + 1, loc[p].recipient_id,
                              Sha256Hex(loc[p].ciphertext), t)}]
    /\ seq' = [seq EXCEPT !.message_hashes = @ + 1]
    /\ pc' = [pc EXCEPT ![p] = "count_hashes"]
    /\ UNCHANGED <<users, messages, message_hashes, hubVars, loc, resp, histVars>>

\* 3. count the recipient's hashes
Submit_CountHashes(p) ==
    /\ pc[p] = "count_hashes"
    /\ LET hash_count == HashCount(p, loc[p].recipient_id)
       IN  /\ loc' = SetLoc(p, "hash_count", hash_count)
           /\ pc' = [pc EXCEPT ![p] = IF hash_count > REPLAY_ATTACK_HASH_COUNT
                                      THEN "select_oldest"
                                      ELSE "commit"]
    /\ UNCHANGED <<dbVars, hubVars, resp, histVars>>

\* the id of the oldest hash
Submit_SelectOldest(p) ==
    /\ pc[p] = "select_oldest"
    /\ LET rows == OldestHashCandidates(p, loc[p].recipient_id)
       IN  IF rows = {}
           THEN /\ loc' = SetLoc(p, "oldest_hash_id", None)
                /\ pc' = [pc EXCEPT ![p] = "commit"]
           ELSE \E h \in rows :
                  /\ loc' = SetLoc(p, "oldest_hash_id", h.id)
                  /\ pc' = [pc EXCEPT ![p] = "delete_oldest"]
    /\ UNCHANGED <<dbVars, hubVars, resp, histVars>>

\* message_hashes.delete().where(id == oldest_hash_id).  While another open
\* transaction has deleted the row the statement waits for it; a row that is
\* gone by then is not deleted again.
Submit_DeleteOldest(p) ==
    /\ pc[p] = "delete_oldest"
    /\ \A q \in Procs \ {p} : loc[p].oldest_hash_id \notin tx[q].dels
    /\ tx' = [tx EXCEPT ![p].dels = @ \cup
                {h.id : h \in {g \in VisibleHashes(p) : g.id = loc[p].oldest_hash_id}}]
    /\ pc' = [pc EXCEPT ![p] = "commit"]
    /\ UNCHANGED <<users, messages, message_hashes, seq, now, hubVars, loc, resp,
                   histVars>>

\* leaving the async with block: the transaction commits
Submit_Commit(p) ==
    /\ pc[p] = "commit"
    /\ messages' = messages \cup tx[p].msgs
    /\ message_hashes' =
         {h \in message_hashes \cup tx[p].hashes : h.id \notin tx[p].dels}
    /\ tx' = [tx EXCEPT ![p] = NoTx]
    /\ loc' = [loc EXCEPT ![p].hash_count = None, ![p].oldest_hash_id = None]
    /\ pc' = [pc EXCEPT ![p] = "check_waiter"]
    /\ UNCHANGED <<users, seq, now, hubVars, resp, histVars>>

\* A statement inside async with database.transaction(), or the commit, raises
\* (the storage fails): the transaction is rolled back on leaving the block and
\* except Exception answers 500.  Ids a sequence handed out are not reused.
Submit_StorageFailure(p) ==
    /\ pc[p] \in {"insert_message", "insert_hash", "count_hashes", "select_oldest",
                  "delete_oldest", "commit"}
    /\ tx' = [tx EXCEPT ![p] = NoTx]
    /\ Respond(p, 500, "StorageError", <<>>)
    /\ UNCHANGED <<users, messages, message_hashes, seq, now, hubVars, loc, histVars>>

\* if recipient_id in waiting_clients: ... else return {"message_id": ...}
Submit_CheckWaiter(p) ==
    /\ pc[p] = "check_waiter"
    /\ IF loc[p].recipient_id \in DOMAIN waiting_clients
       THEN /\ pc' = [pc EXCEPT ![p] = "notify"]
            /\ UNCHANGED resp
       ELSE Respond(p, 200, "", <<loc[p].message_id>>)
    /\ UNCHANGED <<dbVars, hubVars, loc, histVars>>

\* after await database.fetch_one(message_query): create the list if it is
\* missing, append the row, then waiting_clients[recipient_id].set().  The
\* subscript raises KeyError when the entry is gone; save_message turns the
\* exception into a 500.
Submit_Notify(p) ==
    /\ pc[p] = "notify"
    /\ LET rid == loc[p].recipient_id
           new_message_data == CHOOSE m \in messages : m.id = loc[p].message_id
           lists == IF rid \in DOMAIN new_messages
                    THEN new_messages
                    ELSE new_messages @@ (rid :> <<>>)
       IN  /\ new_messages' = [lists EXCEPT ![rid] = Append(@, new_message_data)]
           /\ IF rid \in DOMAIN waiting_clients
              THEN /\ eventSet' = [eventSet EXCEPT ![waiting_clients[rid]] = TRUE]
                   /\ delivered' = [delivered EXCEPT ![waiting_clients[rid]] =
                                       Append(@, loc[p].message_id)]
                   /\ Respond(p, 200, "", <<loc[p].message_id>>)
              ELSE /\ Respond(p, 500, "KeyError", <<>>)
                   /\ UNCHANGED <<eventSet, delivered>>
    /\ UNCHANGED <<dbVars, waiting_clients, loc, after, disturbed>>

\* ---- GET /poll/messages : poll_for_messages
Without(dict, key) == [k \in DOMAIN dict \ {key} |-> dict[k]]
With(dict, key, value) == [k \in DOMAIN dict \cup {key} |->
                              IF k = key THEN value ELSE dict[k]]

\* history: the other polls suspended on user_id see their hub entry touched
Disturb(p, user_id) ==
    [q \in Procs |-> IF q # p /\ pc[q] = "wait" /\ loc[q].user_id = user_id
                     THEN TRUE
                     ELSE disturbed[q]]

\* the finally block: remove the user's entries, whoever made them
Teardown(p) ==
    /\ waiting_clients' = Without(waiting_clients, loc[p].user_id)
    /\ new_messages' = Without(new_messages, loc[p].user_id)
    /\ eventSet' = [eventSet EXCEPT ![p] = FALSE]
    /\ disturbed' = Disturb(p, loc[p].user_id)

\* mutant: the pending list is returned and left in place
Poll_Begin_NoPop(p) ==
    /\ pc[p] = "idle"
    /\ \E k \in Keys :
         LET user_id == get_user(k)
         IN  /\ loc' = [loc EXCEPT ![p] = [NoLoc EXCEPT !.kind = "poll",
                                                        !.public_key = k,
                                                        !.user_id = user_id]]
             /\ IF user_id = None
                THEN /\ Respond(p, 404, "User not found.", <<>>)
                     /\ UNCHANGED <<hubVars, delivered, disturbed>>
                ELSE IF user_id \in DOMAIN new_messages /\ new_messages[user_id] # <<>>
                THEN /\ Respond(p, 200, "", new_messages[user_id])
                     /\ UNCHANGED <<hubVars, delivered, disturbed>>
                ELSE /\ waiting_clients' = With(waiting_clients, user_id, p)
                     /\ new_messages' = With(new_messages, user_id, <<>>)
                     /\ eventSet' = [eventSet EXCEPT ![p] = FALSE]
                     /\ delivered' = [delivered EXCEPT ![p] = <<>>]
                     /\ disturbed' = [Disturb(p, user_id) EXCEPT ![p] = FALSE]
                     /\ pc' = [pc EXCEPT ![p] = "wait"]
                     /\ UNCHANGED resp
    /\ UNCHANGED <<dbVars, after>>

\* get_user; 404 for an unknown key; the pending list if it is not empty;
\* otherwise a new Event and an empty list are stored and the task suspends in
\* asyncio.wait_for.
Poll_Begin(p) ==
    /\ pc[p] = "idle"
    /\ \E k \in Keys :
         LET user_id == get_user(k)
         IN  /\ loc' = [loc EXCEPT ![p] = [NoLoc EXCEPT !.kind = "poll",
                                                        !.public_key = k,
                                                        !.user_id = user_id]]
             /\ IF user_id = None
                THEN /\ Respond(p, 404, "User not found.", <<>>)
                     /\ UNCHANGED <<hubVars, delivered, disturbed>>
                ELSE IF user_id \in DOMAIN new_messages /\ new_messages[user_id] # <<>>
                THEN /\ Respond(p, 200, "", new_messages[user_id])
                     /\ new_messages' = Without(new_messages, user_id)
                     /\ disturbed' = Disturb(p, user_id)
                     /\ UNCHANGED <<waiting_clients, eventSet, delivered>>
                ELSE /\ waiting_clients' = With(waiting_clients, user_id, p)
                     /\ new_messages' = With(new_messages, user_id, <<>>)
                     /\ eventSet' = [eventSet EXCEPT ![p] = FALSE]
                     /\ delivered' = [delivered EXCEPT ![p] = <<>>]
                     /\ disturbed' = [Disturb(p, user_id) EXCEPT ![p] = FALSE]
                     /\ pc' = [pc EXCEPT ![p] = "wait"]
                     /\ UNCHANGED resp
    /\ UNCHANGED <<dbVars, after>>

\* mutant: the list is read after the finally block has removed it
Poll_Wake_AfterCleanup(p) ==
    /\ pc[p] = "wait"
    /\ eventSet[p]
    /\ Respond(p, 200, "", <<>>)
    /\ Teardown(p)
    /\ UNCHANGED <<dbVars, loc, after, delivered>>

\* the Event was set: return new_messages.get(user_id, []), then finally
Poll_Wake(p) ==
    /\ pc[p] = "wait"
    /\ eventSet[p]
    /\ Respond(p, 200, "", IF loc[p].user_id \in DOMAIN new_messages
                           THEN new_messages[loc[p].user_id]
                           ELSE <<>>)
    /\ Teardown(p)
    /\ UNCHANGED <<dbVars, loc, after, delivered>>

\* mutant: the timeout reaches only the poll whose Event is the registered one
Poll_Timeout_IfRegistered(p) ==
    /\ pc[p] = "wait"
    /\ ~eventSet[p]
    /\ loc[p].user_id \in DOMAIN waiting_clients
    /\ waiting_clients[loc[p].user_id] = p
    /\ Respond(p, 200, "timeout", <<>>)
    /\ Teardown(p)
    /\ UNCHANGED <<dbVars, loc, after, delivered>>

\* asyncio.TimeoutError: POLL_TIMEOUT seconds passed with the Event not set.
\* The other requests take as long as they take, so the timeout can come at
\* any point of their execution.  Return [], then finally.
Poll_Timeout(p) ==
    /\ pc[p] = "wait"
    /\ ~eventSet[p]
    /\ Respond(p, 200, "timeout", <<>>)
    /\ Teardown(p)
    /\ UNCHANGED <<dbVars, loc, after, delivered>>

\* ---- GET /messages/ : get_messages
\* mutant: only the messages the user received
Involving_RecipientOnly(user_id) ==
    {m \in messages : m.recipient_id = user_id}

\* where (sender_id == user_id) | (recipient_id == user_id), on committed rows
Involving(user_id) ==
    {m \in messages : m.sender_id = user_id \/ m.recipient_id = user_id}

\* order_by(messages.c.id.asc()); id is the primary key, so no two rows tie
RECURSIVE OrderByIdAsc(_)
OrderByIdAsc(rows) ==
    IF rows = {}
    THEN <<>>
    ELSE LET first == CHOOSE m \in rows : \A g \in rows : m.id <= g.id
         IN  <<first>> \o OrderByIdAsc(rows \ {first})

\* order_by(messages.c.id.desc())
RECURSIVE OrderByIdDesc(_)
OrderByIdDesc(rows) ==
    IF rows = {}
    THEN <<>>
    ELSE LET first == CHOOSE m \in rows : \A g \in rows : m.id >= g.id
         IN  <<first>> \o OrderByIdDesc(rows \ {first})

\* query.limit(limit)
LimitTo(rows, limit) ==
    SubSeq(rows, 1, IF limit < Len(rows) THEN limit ELSE Len(rows))

\* reversed(results)
Reversed(rows) == [i \in 1..Len(rows) |-> rows[Len(rows) + 1 - i]]

\* the query get_messages builds, fetch_all
FetchAll(user_id, since_id, until_id, limit) ==
    LET rows == Involving(user_id)
    IN  LimitTo(IF since_id # Absent
                THEN OrderByIdAsc({m \in rows : m.id > since_id})
                ELSE IF until_id # Absent
                THEN OrderByIdDesc({m \in rows : m.id < until_id})
                ELSE OrderByIdDesc(rows),
                limit)

\* mutant: the rows are returned in the order of the query
HistoryResponse_AsFetched(results, since_id, until_id) == results

\* the list get_messages returns: reversed unless since_id was given
HistoryResponse(results, since_id, until_id) ==
    IF until_id # Absent \/ (since_id = Absent /\ until_id = Absent)
    THEN Reversed(results)
    ELSE results

\* mutant: a history request for an unknown key is answered like a poll
Hist_Request_UnknownIsError(p, public_key, since_id, until_id, limit, start_id, pages) ==
    LET both == since_id # Absent /\ until_id # Absent
        user_id == IF both THEN None ELSE get_user(public_key)
    IN  /\ loc' = [loc EXCEPT ![p] = [NoLoc EXCEPT !.kind = "history",
                                                   !.public_key = public_key,
                                                   !.since_id = since_id,
                                                   !.until_id = until_id,
                                                   !.limit = limit,
                                                   !.user_id = user_id,
                                                   !.start_id = start_id,
                                                   !.pages = pages]]
        /\ IF both
           THEN Respond(p, 400, "Cannot use 'since_id' and 'until_id' at the same time.",
                        <<>>)
           ELSE IF user_id = None
           THEN Respond(p, 404, "User not found.", <<>>)
           ELSE /\ pc' = [pc EXCEPT ![p] = "fetch"]
                /\ UNCHANGED resp
        /\ UNCHANGED <<dbVars, hubVars, histVars>>

\* One history request: 400 when both anchors are given, before anything is
\* read; get_user; [] for an unknown key; otherwise the query is awaited.
\* pages is what the client was sent before, start_id its first anchor.
Hist_Request(p, public_key, since_id, until_id, limit, start_id, pages) ==
    LET both == since_id # Absent /\ until_id # Absent
        user_id == IF both THEN None ELSE get_user(public_key)
    IN  /\ loc' = [loc EXCEPT ![p] = [NoLoc EXCEPT !.kind = "history",
                                                   !.public_key = public_key,
                                                   !.since_id = since_id,
                                                   !.until_id = until_id,
                                                   !.limit = limit,
                                                   !.user_id = user_id,
                                                   !.start_id = start_id,
                                                   !.pages = pages]]
        /\ IF both
           THEN Respond(p, 400, "Cannot use 'since_id' and 'until_id' at the same time.",
                        <<>>)
           ELSE IF user_id = None
           THEN Respond(p, 200, "", <<>>)
           ELSE /\ pc' = [pc EXCEPT ![p] = "fetch"]
                /\ UNCHANGED resp
        /\ UNCHANGED <<dbVars, hubVars, histVars>>

\* a client's request, with any parameters
Hist_Begin(p) ==
    /\ pc[p] = "idle"
    /\ \E k \in Keys, since_id \in {Absent} \cup Anchors,
          until_id \in {Absent} \cup Anchors, limit \in Limits :
         Hist_Request(p, k, since_id, until_id, limit, since_id, <<>>)

\* the client that was sent a page for since_id asks for the next one, since
\* the last id of that page
Hist_NextPage(p) ==
    /\ pc[p] = "done"
    /\ loc[p].kind = "history"
    /\ loc[p].since_id # Absent
    /\ resp[p].status = 200
    /\ resp[p].body # <<>>
    /\ Hist_Request(p, loc[p].public_key, resp[p].body[Len(resp[p].body)].id,
                    Absent, loc[p].limit, loc[p].start_id, loc[p].pages)

\* await database.fetch_all(query), then the list is built and returned
Hist_Fetch(p) ==
    /\ pc[p] = "fetch"
    /\ LET results == FetchAll(loc[p].user_id, loc[p].since_id, loc[p].until_id,
                               loc[p].limit)
           body == HistoryResponse(results, loc[p].since_id, loc[p].until_id)
       IN  /\ Respond(p, 200, "", body)
           /\ loc' = [loc EXCEPT ![p].pages = @ \o body]
    /\ UNCHANGED <<dbVars, hubVars, histVars>>

HistStep(p) ==
    \/ Hist_Begin(p)
    \/ Hist_NextPage(p)
    \/ Hist_Fetch(p)

SubmitStep(p) ==
    \/ Submit_Begin(p)
    \/ Submit_InsertSender(p)
    \/ Submit_GetRecipient(p)
    \/ Submit_InsertRecipient(p)
    \/ Submit_ReplayCheck(p)
    \/ Submit_InsertMessage(p)
    \/ Submit_InsertHash(p)
    \/ Submit_CountHashes(p)
    \/ Submit_SelectOldest(p)
    \/ Submit_DeleteOldest(p)
    \/ Submit_Commit(p)
    \/ Submit_CheckWaiter(p)
    \/ Submit_Notify(p)

PollStep(p) ==
    \/ Poll_Begin(p)
    \/ Poll_Wake(p)
    \/ Poll_Timeout(p)

\* Two posting clients and one polling client, from a new or a filled database.
Next ==
    \/ \E p \in Submitters : SubmitStep(p)
    \/ \E p \in {NumSubmitters + 1} : PollStep(p)

Spec == Init /\ [][Next]_vars

\* One client posts a request and, once it is answered, posts the same request
\* again; polls run alongside.
Submit_First(p) ==
    /\ p = 1
    /\ Submit_Begin(p)

Submit_Again(p) ==
    /\ p > 1
    /\ pc[p - 1] = "done"
    /\ Submit_BeginWith(p, {loc[p - 1].sender_key}, {loc[p - 1].recipient_key},
                        {loc[p - 1].ciphertext})

NextTied ==
    \/ \E p \in Submitters :
          \/ Submit_First(p)
          \/ Submit_Again(p)
          \/ Submit_InsertSender(p)
          \/ Submit_GetRecipient(p)
          \/ Submit_InsertRecipient(p)
          \/ Submit_ReplayCheck(p)
          \/ Submit_InsertMessage(p)
          \/ Submit_InsertHash(p)
          \/ Submit_CountHashes(p)
          \/ Submit_SelectOldest(p)
          \/ Submit_DeleteOldest(p)
          \/ Submit_Commit(p)
          \/ Submit_CheckWaiter(p)
          \/ Submit_Notify(p)
    \/ \E p \in {NumSubmitters + 1} : PollStep(p)

SpecTied == InitTied /\ [][NextTied]_vars

\* One posting client and one polling client, on a database whose hashes were
\* all inserted at one clock reading; the storage can fail inside the
\* transaction.
NextAtomic ==
    \/ \E p \in {1} : SubmitStep(p) \/ Submit_StorageFailure(p)
    \/ \E p \in {NumSubmitters + 1} : PollStep(p)

SpecAtomic == InitTied /\ [][NextAtomic]_vars

\* One posting client and all the polling clients, on a filled database.
InitHub ==
    /\ Filled(REPLAY_ATTACK_HASH_COUNT, FALSE)
    /\ InitTasks

NextHub ==
    \/ \E p \in {1} : SubmitStep(p)
    \/ \E p \in Pollers : PollStep(p)

SpecHub == InitHub /\ [][NextHub]_vars

\* The event loop runs every task that can run: a suspended poll whose Event is
\* set is resumed, and the timer of asyncio.wait_for fires.
FairHub ==
    /\ SpecHub
    /\ \A p \in Pollers : WF_vars(Poll_Wake(p)) /\ WF_vars(Poll_Timeout(p))

\* save_message where no poll is ever made: recipient_id is never found in
\* waiting_clients, so the block of lines 111-117 is not entered
SubmitStep_NoWaiter(p) ==
    \/ Submit_Begin(p)
    \/ Submit_InsertSender(p)
    \/ Submit_GetRecipient(p)
    \/ Submit_InsertRecipient(p)
    \/ Submit_ReplayCheck(p)
    \/ Submit_InsertMessage(p)
    \/ Submit_InsertHash(p)
    \/ Submit_CountHashes(p)
    \/ Submit_SelectOldest(p)
    \/ Submit_DeleteOldest(p)
    \/ Submit_Commit(p)
    \/ Submit_CheckWaiter(p)

\* One posting client and one history client, on a database that holds some
\* messages.
NextHist ==
    \/ \E p \in {1} : SubmitStep_NoWaiter(p)
    \/ \E p \in Readers : HistStep(p)

SpecHist == InitHist /\ [][NextHist]_vars

\* One posting client, one polling client and one history request, from a new
\* or a filled database.
NextLookup ==
    \/ \E p \in {1} : SubmitStep(p)
    \/ \E p \in {NumSubmitters + 1} : PollStep(p)
    \/ \E p \in Readers : Hist_Begin(p) \/ Hist_Fetch(p)

SpecLookup == Init /\ [][NextLookup]_vars

\* The posting clients send a body each; a history client that gives no limit
\* pages through a user's messages from since_id 0.  No poll is made, so no
\* submission finds a waiter.
Submit_Own(p) == Submit_BeginWith(p, Keys, Keys, {p})

Hist_FirstPage(p) ==
    /\ pc[p] = "idle"
    /\ \E k \in Keys : Hist_Request(p, k, 0, Absent, DEFAULT_LIMIT, 0, <<>>)

NextPaging ==
    \/ \E p \in Submitters :
          \/ Submit_Own(p)
          \/ Submit_InsertSender(p)
          \/ Submit_GetRecipient(p)
          \/ Submit_InsertRecipient(p)
          \/ Submit_ReplayCheck(p)
          \/ Submit_InsertMessage(p)
          \/ Submit_InsertHash(p)
          \/ Submit_CountHashes(p)
          \/ Submit_SelectOldest(p)
          \/ Submit_DeleteOldest(p)
          \/ Submit_Commit(p)
          \/ Submit_CheckWaiter(p)
    \/ \E p \in Readers :
          \/ Hist_FirstPage(p)
          \/ Hist_NextPage(p)
          \/ Hist_Fetch(p)

SpecPaging == Init /\ [][NextPaging]_vars

\* a client posting under its own key, with a body of its own
Submit_AsSelf(p) == Submit_BeginWith(p, {p}, Keys, {p})

\* two concurrent submissions and two polls
NextPush ==
    \/ \E p \in Submitters :
          \/ Submit_AsSelf(p)
          \/ Submit_InsertSender(p)
          \/ Submit_GetRecipient(p)
          \/ Submit_InsertRecipient(p)
          \/ Submit_ReplayCheck(p)
          \/ Submit_InsertMessage(p)
          \/ Submit_InsertHash(p)
          \/ Submit_CountHashes(p)
          \/ Submit_SelectOldest(p)
          \/ Submit_DeleteOldest(p)
          \/ Submit_Commit(p)
          \/ Submit_CheckWaiter(p)
          \/ Submit_Notify(p)
    \/ \E p \in Pollers : PollStep(p)

SpecPush == InitHub /\ [][NextPush]_vars

\* ---- properties
IsSubmit(p) == loc[p].kind = "submit" /\ loc[p].ciphertext # 0
Stored(p) == \E m \in messages : m.id = loc[p].message_id
HashesOf(recipient_id) == {h \in message_hashes : h.recipient_id = recipient_id}
MessagesTo(recipient_id) == {m \in messages : m.recipient_id = recipient_id}
SameSubmission(p, q) ==
    /\ IsSubmit(p) /\ IsSubmit(q)
    /\ loc[p].recipient_key = loc[q].recipient_key
    /\ loc[p].ciphertext = loc[q].ciphertext
\* neither request began after the other was answered
Concurrent(p, q) == p \notin after[q] /\ q \notin after[p]

\* C1: of two concurrent submissions of the same body to the same recipient at
\* most one is accepted: they do not both store a message, they are not both
\* answered 200, and the recipient holds at most one replay record of the hash.
C1_ConcurrentDuplicateRejected ==
    \A p \in Submitters, q \in Submitters :
       (p # q /\ SameSubmission(p, q) /\ Concurrent(p, q)
          /\ pc[p] = "done" /\ pc[q] = "done")
       => /\ ~(Stored(p) /\ Stored(q))
          /\ ~(resp[p].status = 200 /\ resp[q].status = 200)
          /\ Cardinality(ReplayMatches(loc[p].recipient_id,
                                       Sha256Hex(loc[p].ciphertext))) <= 1

\* C2: a submission repeated right after it was answered 200 (no other
\* submission to the recipient in between) is answered 409 and stores nothing.
C2_RepeatIsRejected ==
    \A p \in Submitters, q \in Submitters :
       (/\ SameSubmission(p, q) /\ p \in after[q] /\ pc[q] = "done"
        /\ resp[p].status = 200
        /\ \A t \in Submitters \ {p, q} :
              (IsSubmit(t) /\ loc[t].recipient_key = loc[p].recipient_key)
              => (t \in after[p] \/ q \in after[t]))
       => /\ resp[q].status = 409
          /\ loc[q].message_id = None

\* C4: a submission whose transaction committed is answered 200 with its
\* message id, whatever the polls for the recipient do meanwhile.
C4_CommittedSubmitSucceeds ==
    \A p \in Submitters :
       (pc[p] = "done" /\ IsSubmit(p) /\ Stored(p))
       => (resp[p].status = 200 /\ resp[p].body = <<loc[p].message_id>>)

\* C5: in every committed state a recipient has at most
\* REPLAY_ATTACK_HASH_COUNT replay records.
C5_ReplayBound ==
    \A u \in users : Cardinality(HashesOf(u.id)) <= REPLAY_ATTACK_HASH_COUNT

\* the n messages to the recipient that were accepted last (highest ids)
MostRecent(recipient_id, n) ==
    {m \in MessagesTo(recipient_id) :
        Cardinality({g \in MessagesTo(recipient_id) : g.id > m.id}) < n}

\* C6: between submissions, a recipient that was sent more than
\* REPLAY_ATTACK_HASH_COUNT bodies, all different, holds exactly that many replay
\* records, those of the messages accepted last.
C6_WindowIsMostRecent ==
    \A u \in users :
       (/\ \A p \in Submitters : pc[p] \in {"idle", "done"}
        /\ Cardinality(MessagesTo(u.id)) > REPLAY_ATTACK_HASH_COUNT
        /\ \A m \in MessagesTo(u.id), g \in MessagesTo(u.id) :
              m.ciphertext = g.ciphertext => m = g)
       => /\ Cardinality(HashesOf(u.id)) = REPLAY_ATTACK_HASH_COUNT
          /\ {h.message_hash : h \in HashesOf(u.id)} =
                {Sha256Hex(m.ciphertext) :
                    m \in MostRecent(u.id, REPLAY_ATTACK_HASH_COUNT)}

\* C7: no request is answered with the uniqueness violation of a concurrent
\* first resolution of its key.
C7_NoUniquenessError ==
    \A p \in Submitters : ~(pc[p] = "done" /\ resp[p].detail = "IntegrityError")

Ids(rows) == [i \in 1..Len(rows) |-> rows[i].id]

\* C3: a poll that was suspended when the one submission to its user set its
\* Event, and whose hub entry no other poll touched, is answered 200 with
\* exactly that message.
C3_LiveDelivery ==
    \A p \in Pollers :
       (pc[p] = "done" /\ ~disturbed[p] /\ Len(delivered[p]) = 1)
       => /\ resp[p].status = 200
          /\ Ids(resp[p].body) = delivered[p]
          /\ \A i \in 1..Len(resp[p].body) : resp[p].body[i] \in messages

C3_Witness ==
    \E p \in Pollers, q \in Pollers :
       /\ pc[p] = "done" /\ ~disturbed[p] /\ Len(delivered[p]) = 1
       /\ Ids(resp[p].body) = delivered[p]
       /\ q # p /\ pc[q] = "done" /\ loc[q].user_id = loc[p].user_id

\* C8: the identity table holds one row per public key and per id, and every
\* id a request was given for a key is the id the table holds for that key.
C8_IdentityStable ==
    /\ \A u \in users, v \in users :
          (u.public_key = v.public_key \/ u.id = v.id) => u = v
    /\ \A p \in Procs :
          /\ loc[p].sender_id # None
                => UserRow(loc[p].sender_id, loc[p].sender_key) \in users
          /\ loc[p].recipient_id # None
                => UserRow(loc[p].recipient_id, loc[p].recipient_key) \in users
          /\ loc[p].user_id # None
                => UserRow(loc[p].user_id, loc[p].public_key) \in users

\* a key first seen in this run, resolved to one id by a request, by a
\* concurrent one, and by a poll
C8_Witness ==
    \E p \in Submitters, q \in Submitters, r \in Pollers :
       /\ p # q /\ Concurrent(p, q) /\ pc[p] = "done" /\ pc[q] = "done"
       /\ loc[p].recipient_key = 2 /\ loc[q].sender_key = 2
       /\ loc[p].recipient_id # None
       /\ loc[p].recipient_id = loc[q].sender_id
       /\ loc[r].public_key = 2 /\ loc[r].user_id = loc[p].recipient_id

\* C9: a submission is rejected as a duplicate only if a message with the same
\* body was accepted for the same recipient; what other recipients were sent
\* never causes a rejection.
C9_RejectionIsPerRecipient ==
    \A p \in Submitters :
       (pc[p] = "done" /\ resp[p].status = 409)
       => \E m \in messages : /\ m.recipient_id = loc[p].recipient_id
                              /\ m.ciphertext = loc[p].ciphertext

\* body c accepted for one recipient, then accepted for another
C9_Witness ==
    \E p \in Submitters, q \in Submitters :
       /\ p \in after[q] /\ pc[q] = "done"
       /\ loc[p].ciphertext = loc[q].ciphertext
       /\ loc[p].recipient_id # loc[q].recipient_id
       /\ resp[p].status = 200 /\ resp[q].status = 200
       /\ ReplayMatches(loc[p].recipient_id, Sha256Hex(loc[p].ciphertext)) # {}
       /\ ReplayMatches(loc[q].recipient_id, Sha256Hex(loc[q].ciphertext)) # {}

\* C10: every suspended poll is answered, with 200; one to which nothing was
\* delivered is answered with the empty list.
C10_PollResolves ==
    \A p \in Pollers :
       (pc[p] = "wait")
          ~> (/\ pc[p] = "done"
              /\ resp[p].status = 200
              /\ (delivered[p] = <<>> => resp[p].body = <<>>))

\* a poll whose registration a later poll replaced, answered by its timeout
C10_Witness ==
    \E p \in Pollers :
       /\ pc[p] = "done" /\ disturbed[p]
       /\ resp[p] = [status |-> 200, detail |-> "timeout", body |-> <<>>]

\* the history request of r is answered in this step
HistAnswered(r) == pc[r] \in {"idle", "fetch"} /\ pc'[r] = "done"
\* message m was sent by or to the user of public key k
InvolvesKey(m, k) == get_user(k) \in {m.sender_id, m.recipient_id} \ {None}

\* C11: a history request without anchors that is answered after a submission
\* was answered 200 with message id m, for the key of its sender or of its
\* recipient, contains message m, unless limit or more newer messages involve
\* that user.
C11_HistoryShowsAccepted ==
    [][\A r \in Readers, p \in Submitters :
          (/\ HistAnswered(r)
           /\ resp'[r].status = 200
           /\ loc'[r].since_id = Absent /\ loc'[r].until_id = Absent
           /\ pc[p] = "done" /\ resp[p].status = 200
           /\ loc'[r].public_key \in {loc[p].sender_key, loc[p].recipient_key}
           /\ Cardinality({m \in messages : /\ InvolvesKey(m, loc'[r].public_key)
                                             /\ m.id > loc[p].message_id})
                 < loc'[r].limit)
          => \E i \in 1..Len(resp'[r].body) :
                resp'[r].body[i] =
                   MessageRow(loc[p].message_id, loc[p].sender_id,
                              loc[p].recipient_id, loc[p].ciphertext)]_vars

\* the sender's history shows a message accepted in this run for another user
C11_Witness ==
    \E r \in Readers, p \in Submitters :
       /\ pc[p] = "done" /\ resp[p].status = 200
       /\ loc[p].sender_key # loc[p].recipient_key
       /\ pc[r] = "done" /\ resp[r].status = 200
       /\ loc[r].since_id = Absent /\ loc[r].until_id = Absent
       /\ loc[r].public_key = loc[p].sender_key
       /\ \E i \in 1..Len(resp[r].body) : resp[r].body[i].id = loc[p].message_id

Ascending(rows) == \A i \in 1..(Len(rows) - 1) : rows[i].id < rows[i + 1].id
RowsOf(rows) == {rows[i] : i \in 1..Len(rows)}
MessagesOf(user_id) ==
    {m \in messages : m.sender_id = user_id \/ m.recipient_id = user_id}

\* C12: when a client that began with a since_id below every message id, and
\* asked for each next page since the last id of the page before, is sent the
\* empty page, the pages it was sent are, one after the other, all the
\* messages the user sent or received, in ascending id order, each once.
C12_PagesCoverHistory ==
    [][\A r \in Readers :
          (/\ pc[r] = "fetch" /\ pc'[r] = "done"
           /\ loc[r].since_id # Absent
           /\ \A m \in messages : loc[r].start_id < m.id
           /\ resp'[r].body = <<>>)
          => /\ Ascending(loc'[r].pages)
             /\ RowsOf(loc'[r].pages) = MessagesOf(loc[r].user_id)]_vars

\* C13: a history request for a public key that has no identity is answered
\* 200 with the empty list, a poll for it is answered 404, and every identity
\* there is was made for a submission: it is the sender or recipient of a
\* stored message, or the one a submission resolved its key to.
C13_UnknownKey ==
    /\ \A r \in Readers :
          (/\ pc[r] = "done"
           /\ ~(loc[r].since_id # Absent /\ loc[r].until_id # Absent)
           /\ get_user(loc[r].public_key) = None)
          => resp[r] = [status |-> 200, detail |-> "", body |-> <<>>]
    /\ \A p \in Pollers :
          (pc[p] = "done" /\ get_user(loc[p].public_key) = None)
          => resp[p].status = 404
    /\ \A u \in users :
          \/ \E m \in messages : u.id \in {m.sender_id, m.recipient_id}
          \/ \E p \in Submitters :
                \/ loc[p].sender_key = u.public_key /\ loc[p].sender_id = u.id
                \/ loc[p].recipient_key = u.public_key /\ loc[p].recipient_id = u.id

\* a history request and a poll for the same key were answered, a submission
\* was accepted meanwhile, and the key still has no identity
C13_Witness ==
    \E r \in Readers, p \in Pollers, q \in Submitters :
       /\ pc[r] = "done" /\ pc[p] = "done"
       /\ loc[r].public_key = loc[p].public_key
       /\ loc[r].kind = "history" /\ loc[p].kind = "poll"
       /\ get_user(loc[r].public_key) = None
       /\ resp[r].status = 200 /\ resp[r].body = <<>>
       /\ resp[p].status = 404
       /\ pc[q] = "done" /\ resp[q].status = 200

\* C14: when a poll resumes and tears down while the wait record of its user
\* is the one a newer, still suspended poll registered, that record and its
\* buffer stay in the hub, so that a later delivery reaches the newer poll.
C14_TeardownKeepsNewer ==
    [][\A p \in Pollers, q \in Pollers :
          (/\ p # q
           /\ pc[p] = "wait" /\ pc'[p] = "done"
           /\ pc[q] = "wait" /\ loc[q].user_id = loc[p].user_id
           /\ loc[q].user_id \in DOMAIN waiting_clients
           /\ waiting_clients[loc[q].user_id] = q)
          => /\ loc[q].user_id \in DOMAIN waiting_clients'
             /\ waiting_clients'[loc[q].user_id] = q
             /\ loc[q].user_id \in DOMAIN new_messages']_vars

IdsIn(rows) == {rows[i].id : i \in 1..Len(rows)}

\* C15: every message appended to the buffer and signalled to a poll's wait
\* record while the poll was suspended is in the list the poll returns.
C15_DeliveriesAccumulate ==
    \A p \in Pollers :
       pc[p] = "done"
          => \A i \in 1..Len(delivered[p]) : delivered[p][i] \in IdsIn(resp[p].body)

\* C16: a submission that met a storage failure inside its transaction is
\* answered 500 and has no row committed; every replay record belongs to a
\* stored message of its recipient; and each of a recipient's
\* REPLAY_ATTACK_HASH_COUNT most recent messages has its replay record.
C16_AllOrNothing ==
    /\ \A p \in Submitters :
          (pc[p] = "done" /\ resp[p].detail = "StorageError")
          => (resp[p].status = 500 /\ ~Stored(p) /\ tx[p] = NoTx)
    /\ \A h \in message_hashes :
          \E m \in messages : /\ m.recipient_id = h.recipient_id
                               /\ Sha256Hex(m.ciphertext) = h.message_hash
    /\ \A u \in users :
          \A m \in MostRecent(u.id, REPLAY_ATTACK_HASH_COUNT) :
             \E h \in HashesOf(u.id) : h.message_hash = Sha256Hex(m.ciphertext)

\* C18: the hub holds a wait record or a buffer only for a user for whom a
\* poll is suspended.
C18_NoLeakedHubState ==
    \A u \in DOMAIN waiting_clients \cup DOMAIN new_messages :
       \E p \in Pollers : pc[p] = "wait" /\ loc[p].user_id = u

\* C19: the hub buffer of a recipient, and with it every poll result, lists
\* the messages in ascending id, whatever the interleaving of the submissions.
C19_BufferInIdOrder ==
    /\ \A u \in DOMAIN new_messages : Ascending(new_messages[u])
    /\ \A p \in Pollers : pc[p] = "done" => Ascending(resp[p].body)

\* C20: no message id is in the results of two different polls, and no poll
\* result holds the same message twice.
C20_PushedAtMostOnce ==
    /\ \A p, q \in Pollers :
          p # q /\ pc[p] = "done" /\ pc[q] = "done"
             => IdsIn(resp[p].body) \cap IdsIn(resp[q].body) = {}
    /\ \A p \in Pollers :
          pc[p] = "done"
             => \A i, j \in 1..Len(resp[p].body) :
                   i # j => resp[p].body[i].id # resp[p].body[j].id

\* a second poll took the pending list while the woken first poll had not
\* resumed; the first poll then resumed
C20_Witness ==
    \E p, q \in Pollers :
       /\ p # q
       /\ pc[p] = "done" /\ pc[q] = "done"
       /\ delivered[p] # <<>>
       /\ resp[p].status = 200 /\ resp[p].body = <<>>
       /\ IdsIn(resp[q].body) = {delivered[p][i] : i \in 1..Len(delivered[p])}

\* the n rows of highest id, and of lowest id
Highest(rows, n) == {m \in rows : Cardinality({g \in rows : g.id > m.id}) < n}
Lowest(rows, n) == {m \in rows : Cardinality({g \in rows : g.id < m.id}) < n}

\* C17: the list a history request is answered with is in strictly ascending id
\* order and holds, of the messages the user sent or received: with since_id
\* the limit lowest ids above it, with until_id the limit highest ids below
\* it, with neither the limit highest ids.
C17_HistoryPage ==
    [][\A r \in Readers :
          (pc[r] = "fetch" /\ pc'[r] = "done")
          => /\ resp'[r].status = 200
             /\ Ascending(resp'[r].body)
             /\ RowsOf(resp'[r].body) =
                  IF loc[r].since_id # Absent
                  THEN Lowest({m \in MessagesOf(loc[r].user_id) : m.id > loc[r].since_id},
                              loc[r].limit)
                  ELSE IF loc[r].until_id # Absent
                  THEN Highest({m \in MessagesOf(loc[r].user_id) : m.id < loc[r].until_id},
                               loc[r].limit)
                  ELSE Highest(MessagesOf(loc[r].user_id), loc[r].limit)]_vars

\* a page of two messages below until_id, while the store also holds a message
\* that does not involve the user
C17_Witness ==
    \E r \in Readers :
       /\ pc[r] = "done" /\ resp[r].status = 200
       /\ loc[r].until_id # Absent
       /\ Len(resp[r].body) = 2
       /\ resp[r].body[1].id < resp[r].body[2].id
       /\ messages # MessagesOf(loc[r].user_id)

====
